---- MODULE Spec2Model ----
(***************************************************************************)
(* A model of the sudoku board module (board.c / board.h) and its client   *)
(* (main.c): heatmaps, the board, board_insert, board_make_notes,          *)
(* board_copy and the recursive board_solve with its call stack.           *)
(***************************************************************************)
EXTENDS Integers, Sequences, FiniteSets, TLC

(***************************************************************************)
(* Sizes and bounds.                                                       *)
(***************************************************************************)
\* root = (int)sqrt((double)size): the side of a box. The board size is root*root.
Root == 2
N == Root * Root
Idx == 0 .. (N - 1)
Vals == 1 .. N

\* Every input of at most MaxClues clues is among the inputs of main.
MaxClues == 2
\* The rows and the columns main passes on to board_insert: its input loops
\* turn away "row < 0 || row > size" only, so 0 goes through.
MainIdx == 0 .. N
\* The deepest nesting of board_solve calls the model follows.
MaxDepth == 18

(***************************************************************************)
(* struct heatmap: a bool array with a maintained count of its 1s.         *)
(***************************************************************************)
heatmap_create ==
    [count |-> 0, map |-> [v \in Vals |-> FALSE]]

heatmap_check(h, val) == h.map[val]

\* A faulty heatmap_flip that forgets the count.
heatmap_flip_nocount(h, val) ==
    [count |-> h.count, map |-> [h.map EXCEPT ![val] = ~h.map[val]]]

heatmap_flip(h, val) ==
    IF h.map[val]
    THEN [count |-> h.count - 1, map |-> [h.map EXCEPT ![val] = FALSE]]
    ELSE [count |-> h.count + 1, map |-> [h.map EXCEPT ![val] = TRUE]]

heatmap_on(h, val) ==
    [count |-> IF h.map[val] THEN h.count ELSE h.count + 1,
     map   |-> [h.map EXCEPT ![val] = TRUE]]

heatmap_off(h, val) ==
    [count |-> IF h.map[val] THEN h.count - 1 ELSE h.count,
     map   |-> [h.map EXCEPT ![val] = FALSE]]

\* The loop of heatmap_copy from index i on: dest[i] is switched off, then
\* flipped back on when src holds i.
RECURSIVE heatmap_copy_from(_, _, _)
heatmap_copy_from(dest, src, i) ==
    IF i > N THEN dest
    ELSE LET cleared == heatmap_off(dest, i)
             next    == IF heatmap_check(src, i) THEN heatmap_flip(cleared, i)
                        ELSE cleared
         IN  heatmap_copy_from(next, src, i + 1)

heatmap_copy(dest, src) == heatmap_copy_from(dest, src, 1)

\* heatmap_off(h, 1) ; ... ; heatmap_off(h, N), as board_insert does to the
\* notes of the inserted square.
RECURSIVE heatmap_off_from(_, _)
heatmap_off_from(h, i) ==
    IF i > N THEN h ELSE heatmap_off_from(heatmap_off(h, i), i + 1)

heatmap_members(h) == { v \in Vals : h.map[v] }

(***************************************************************************)
(* struct board.                                                           *)
(***************************************************************************)
box_finder(row, col) == Root * (row \div Root) + (col \div Root)

board_create ==
    [data              |-> [i \in Idx |-> [j \in Idx |-> 0]],
     appearances       |-> [i \in Idx |-> 0],
     total_appearances |-> 0,
     rows              |-> [i \in Idx |-> heatmap_create],
     cols              |-> [i \in Idx |-> heatmap_create],
     boxs              |-> [i \in Idx |-> heatmap_create],
     notes             |-> [i \in Idx |-> [j \in Idx |-> heatmap_create]]]

\* A faulty insert_notes that leaves the notes of the column alone.
insert_notes_nocol(b, row, col, val) ==
    LET box == box_finder(row - 1, col - 1)
    IN  [i \in Idx |-> [j \in Idx |->
            LET h0 == b.notes[i][j]
                h1 == IF i = row - 1 /\ j = col - 1
                      THEN heatmap_off_from(h0, 1) ELSE h0
            IN  IF i = row - 1 \/ box_finder(i, j) = box
                THEN heatmap_off(h1, val)
                ELSE h1]]

\* A faulty insert_notes that leaves the notes of the box alone.
insert_notes_nobox(b, row, col, val) ==
    [i \in Idx |-> [j \in Idx |->
        LET h0 == b.notes[i][j]
            h1 == IF i = row - 1 /\ j = col - 1
                  THEN heatmap_off_from(h0, 1) ELSE h0
        IN  IF i = row - 1 \/ j = col - 1 THEN heatmap_off(h1, val) ELSE h1]]

\* The notes of b after a successful insert of val at (row, col), 1-indexed:
\* every note of the square itself off, val off along its row and column and
\* in its box.
insert_notes(b, row, col, val) ==
    LET box == box_finder(row - 1, col - 1)
    IN  [i \in Idx |-> [j \in Idx |->
            LET h0 == b.notes[i][j]
                h1 == IF i = row - 1 /\ j = col - 1
                      THEN heatmap_off_from(h0, 1) ELSE h0
            IN  IF i = row - 1 \/ j = col - 1 \/ box_finder(i, j) = box
                THEN heatmap_off(h1, val)
                ELSE h1]]

\* The board a successful board_insert leaves.
inserted(b, row, col, val) ==
    LET box == box_finder(row - 1, col - 1)
    IN  [data |-> [b.data EXCEPT ![row - 1][col - 1] = val],
         appearances |-> [b.appearances EXCEPT ![val - 1] = @ + 1],
         total_appearances |-> b.total_appearances + 1,
         rows |-> [b.rows EXCEPT ![row - 1] = heatmap_flip(@, val)],
         cols |-> [b.cols EXCEPT ![col - 1] = heatmap_flip(@, val)],
         boxs |-> [b.boxs EXCEPT ![box] = heatmap_flip(@, val)],
         notes |-> insert_notes(b, row, col, val)]

\* A faulty board_insert without the test of the row.
board_insert_norow(b, row, col, val) ==
    IF b.data[row - 1][col - 1] # 0 THEN [ret |-> 1, b |-> b]
    ELSE IF heatmap_check(b.cols[col - 1], val) THEN [ret |-> 2, b |-> b]
    ELSE IF heatmap_check(b.boxs[box_finder(row - 1, col - 1)], val)
         THEN [ret |-> 2, b |-> b]
    ELSE [ret |-> 0, b |-> inserted(b, row, col, val)]

\* A faulty board_insert without the test of the box.
board_insert_nobox(b, row, col, val) ==
    IF b.data[row - 1][col - 1] # 0 THEN [ret |-> 1, b |-> b]
    ELSE IF heatmap_check(b.rows[row - 1], val) THEN [ret |-> 2, b |-> b]
    ELSE IF heatmap_check(b.cols[col - 1], val) THEN [ret |-> 2, b |-> b]
    ELSE [ret |-> 0, b |-> inserted(b, row, col, val)]

\* A faulty board_insert without the test of the column.
board_insert_nocol(b, row, col, val) ==
    IF b.data[row - 1][col - 1] # 0 THEN [ret |-> 1, b |-> b]
    ELSE IF heatmap_check(b.rows[row - 1], val) THEN [ret |-> 2, b |-> b]
    ELSE IF heatmap_check(b.boxs[box_finder(row - 1, col - 1)], val)
         THEN [ret |-> 2, b |-> b]
    ELSE [ret |-> 0, b |-> inserted(b, row, col, val)]

\* A faulty board_insert that tests for a conflict before it tests whether
\* the square is filled.
board_insert_conflict_first(b, row, col, val) ==
    IF \/ heatmap_check(b.rows[row - 1], val)
       \/ heatmap_check(b.cols[col - 1], val)
       \/ heatmap_check(b.boxs[box_finder(row - 1, col - 1)], val)
    THEN [ret |-> 2, b |-> b]
    ELSE IF b.data[row - 1][col - 1] # 0 THEN [ret |-> 1, b |-> b]
    ELSE [ret |-> 0, b |-> inserted(b, row, col, val)]

\* board_insert: the return value and the board it leaves.
board_insert(b, row, col, val) ==
    LET box == box_finder(row - 1, col - 1)
    IN  IF b.data[row - 1][col - 1] # 0 THEN [ret |-> 1, b |-> b]
        ELSE IF heatmap_check(b.rows[row - 1], val) THEN [ret |-> 2, b |-> b]
        ELSE IF heatmap_check(b.cols[col - 1], val) THEN [ret |-> 2, b |-> b]
        ELSE IF heatmap_check(b.boxs[box], val) THEN [ret |-> 2, b |-> b]
        ELSE [ret |-> 0, b |-> inserted(b, row, col, val)]

\* A faulty note maker that does not look at the box.
RECURSIVE make_notes_from_nobox(_, _, _, _, _)
make_notes_from_nobox(b, i, j, h, val) ==
    IF val > N THEN h
    ELSE make_notes_from_nobox(b, i, j,
            IF b.data[i][j] = 0 /\ ~heatmap_check(b.rows[i], val)
               /\ ~heatmap_check(b.cols[j], val)
            THEN heatmap_on(h, val) ELSE h,
            val + 1)

\* The notes of square (i, j) after board_make_notes: heatmap_on for every
\* value val = k, k+1, ... that the square's row, column and box lack, when
\* the square is empty.
RECURSIVE make_notes_from(_, _, _, _, _)
make_notes_from(b, i, j, h, val) ==
    IF val > N THEN h
    ELSE make_notes_from(b, i, j,
            IF b.data[i][j] = 0 /\ ~heatmap_check(b.rows[i], val)
               /\ ~heatmap_check(b.cols[j], val)
               /\ ~heatmap_check(b.boxs[box_finder(i, j)], val)
            THEN heatmap_on(h, val) ELSE h,
            val + 1)

board_make_notes(b) ==
    [b EXCEPT !.notes =
        [i \in Idx |-> [j \in Idx |-> make_notes_from(b, i, j, b.notes[i][j], 1)]]]

\* The second loop of board_copy from square number p (row-major) on: a
\* filled square of src is inserted into dest, the notes of an empty one are
\* copied.
RECURSIVE board_copy_from(_, _, _)
board_copy_from(dest, src, p) ==
    IF p >= N * N THEN dest
    ELSE LET i == p \div N
             j == p % N
         IN  board_copy_from(
                IF src.data[i][j] # 0
                THEN board_insert(dest, i + 1, j + 1, src.data[i][j]).b
                ELSE [dest EXCEPT !.notes[i][j] =
                         heatmap_copy(@, src.notes[i][j])],
                src, p + 1)

\* A faulty board_copy that does not empty the grid of dest.
board_copy_keep(dest, src) ==
    board_copy_from([dest EXCEPT
                        !.appearances = [i \in Idx |-> 0],
                        !.total_appearances = 0,
                        !.rows = [i \in Idx |-> heatmap_create],
                        !.cols = [i \in Idx |-> heatmap_create],
                        !.boxs = [i \in Idx |-> heatmap_create]],
                    src, 0)

\* board_copy: dest's counters, used-sets and grid are emptied (its notes
\* are not), then dest is filled from src.
board_copy(dest, src) ==
    LET empty == heatmap_create
        emptied ==
            [data              |-> [i \in Idx |-> [j \in Idx |-> 0]],
             appearances       |-> [i \in Idx |-> 0],
             total_appearances |-> 0,
             rows  |-> [i \in Idx |-> heatmap_copy(dest.rows[i], empty)],
             cols  |-> [i \in Idx |-> heatmap_copy(dest.cols[i], empty)],
             boxs  |-> [i \in Idx |-> heatmap_copy(dest.boxs[i], empty)],
             notes |-> dest.notes]
    IN  board_copy_from(emptied, src, 0)

(***************************************************************************)
(* One round of the propagation loop of board_solve (the body of the       *)
(* while loop), as the sequence of places where it may call board_insert   *)
(* or return. For each i = 0 .. N-1 in turn:                               *)
(*   slot 0            value i+1 has N-1 entries                           *)
(*   slot 1, 2, 3      row i, column i, box i has N-1 entries              *)
(*   slot 4 + j        square (i, j) has one note, or none                 *)
(*   slot 4 + N + t    value, unit and kind (row, column, box) number t of *)
(*                     the scan for values noted once in a unit            *)
(***************************************************************************)
SlotsPerIndex == 4 + N + (N * N * 3)
RoundSlots == N * SlotsPerIndex

NoCall == [kind |-> "none", row |-> 0, col |-> 0, val |-> 0]
InsertCall(row, col, val) ==
    [kind |-> "insert", row |-> row, col |-> col, val |-> val]
ReturnCall == [kind |-> "return", row |-> 0, col |-> 0, val |-> 0]

\* "check for numbers with size-1 entries": row and col follow the rows and
\* columns that lack the value, and the insert happens as soon as both are set.
RECURSIVE scan_value(_, _, _, _, _)
scan_value(b, i, j, row, col) ==
    IF j >= N THEN NoCall
    ELSE LET row2 == IF ~heatmap_check(b.rows[j], i + 1) THEN j ELSE row
             col2 == IF ~heatmap_check(b.cols[j], i + 1) THEN j ELSE col
         IN  IF row2 >= 0 /\ col2 >= 0
             THEN InsertCall(row2 + 1, col2 + 1, i + 1)
             ELSE scan_value(b, i, j + 1, row2, col2)

\* "check for rows with size-1 entries"
RECURSIVE scan_row(_, _, _, _, _)
scan_row(b, i, j, col, val) ==
    IF j >= N THEN NoCall
    ELSE LET val2 == IF ~heatmap_check(b.rows[i], j + 1) THEN j + 1 ELSE val
             col2 == IF b.data[i][j] = 0 THEN j ELSE col
         IN  IF col2 >= 0 /\ val2 >= 0
             THEN InsertCall(i + 1, col2 + 1, val2)
             ELSE scan_row(b, i, j + 1, col2, val2)

\* "check for cols with size-1 entries"
RECURSIVE scan_col(_, _, _, _, _)
scan_col(b, i, j, row, val) ==
    IF j >= N THEN NoCall
    ELSE LET val2 == IF ~heatmap_check(b.cols[i], j + 1) THEN j + 1 ELSE val
             row2 == IF b.data[j][i] = 0 THEN j ELSE row
         IN  IF row2 >= 0 /\ val2 >= 0
             THEN InsertCall(row2 + 1, i + 1, val2)
             ELSE scan_col(b, i, j + 1, row2, val2)

\* The squares of box i, as (row, col) pairs, 0-indexed: rows box_row ..
\* box_row + root - 1 and columns box_col .. box_col + root - 1.
BoxSquares ==
    [i \in Idx |-> { <<r, c>> \in Idx \X Idx :
                       /\ r \div Root = i \div Root
                       /\ c \div Root = i % Root }]
RowSquares == [i \in Idx |-> { <<i, j>> : j \in Idx }]
ColSquares == [i \in Idx |-> { <<j, i>> : j \in Idx }]
box_squares(i) == BoxSquares[i]

\* The first of a non-empty set of squares in row-major order.
first_square(S) ==
    CHOOSE s \in S : \A t \in S : s[1] * N + s[2] <= t[1] * N + t[2]

\* "check for boxs with size-1 entries": val ends as the last value the box
\* lacks; the first empty square of the box receives it. A box with N-1
\* entries has one empty square, so the rows after it hold none.
scan_box(b, i) ==
    LET missing == { v \in Vals : ~heatmap_check(b.boxs[i], v) }
        empties == { s \in box_squares(i) : b.data[s[1]][s[2]] = 0 }
    IN  IF missing = {} \/ empties = {} THEN NoCall
        ELSE LET s == first_square(empties)
                 val == CHOOSE v \in missing : \A w \in missing : w <= v
             IN  InsertCall(s[1] + 1, s[2] + 1, val)

\* A faulty scan_square that does not look for squares without notes.
scan_square_nocontra(b, i, j) ==
    LET h == b.notes[i][j]
    IN  IF h.count = 1 /\ heatmap_members(h) # {}
        THEN InsertCall(i + 1, j + 1,
                CHOOSE v \in heatmap_members(h) :
                   \A w \in heatmap_members(h) : v <= w)
        ELSE NoCall

\* A faulty scan_square that takes a filled square for one without notes.
scan_square_filled(b, i, j) ==
    LET h == b.notes[i][j]
    IN  IF h.count = 1 /\ heatmap_members(h) # {}
        THEN InsertCall(i + 1, j + 1,
                CHOOSE v \in heatmap_members(h) :
                   \A w \in heatmap_members(h) : v <= w)
        ELSE IF h.count = 0 THEN ReturnCall
        ELSE NoCall

\* "checks for squares with only one possible number" and "with no
\* possible numbers".
scan_square(b, i, j) ==
    LET h == b.notes[i][j]
    IN  IF h.count = 1
        THEN IF heatmap_members(h) = {} THEN NoCall
             ELSE InsertCall(i + 1, j + 1,
                     CHOOSE v \in heatmap_members(h) :
                        \A w \in heatmap_members(h) : v <= w)
        ELSE IF h.count = 0 /\ b.data[i][j] = 0 THEN ReturnCall
        ELSE NoCall

\* A faulty scan_once with the test of the used-set inverted.
scan_once_inverted(b, val, i, kind) ==
    LET used == IF kind = 0 THEN b.rows[i]
                ELSE IF kind = 1 THEN b.cols[i] ELSE b.boxs[i]
        unit == IF kind = 0 THEN RowSquares[i]
                ELSE IF kind = 1 THEN ColSquares[i]
                ELSE box_squares(i)
        noted == { s \in unit : heatmap_check(b.notes[s[1]][s[2]], val) }
    IN  IF heatmap_check(used, val) /\ Cardinality(noted) = 1
        THEN LET s == CHOOSE t \in noted : TRUE
             IN  InsertCall(s[1] + 1, s[2] + 1, val)
        ELSE NoCall

\* "checks for rows, cols, or boxs where numbers exist only once in the
\* notes": the squares of the unit that note val are counted (the count
\* stops early once it exceeds one), and a count of one inserts.
scan_once(b, val, i, kind) ==
    LET used == IF kind = 0 THEN b.rows[i]
                ELSE IF kind = 1 THEN b.cols[i] ELSE b.boxs[i]
        unit == IF kind = 0 THEN RowSquares[i]
                ELSE IF kind = 1 THEN ColSquares[i]
                ELSE box_squares(i)
        noted == { s \in unit : heatmap_check(b.notes[s[1]][s[2]], val) }
    IN  IF ~heatmap_check(used, val) /\ Cardinality(noted) = 1
        THEN LET s == CHOOSE t \in noted : TRUE
             IN  InsertCall(s[1] + 1, s[2] + 1, val)
        ELSE NoCall

\* What the round does at slot pos on board b.
site_call(b, pos) ==
    LET i == pos \div SlotsPerIndex
        s == pos % SlotsPerIndex
        t == s - (4 + N)
    IN  IF s = 0 THEN IF b.appearances[i] = N - 1
                      THEN scan_value(b, i, 0, -1, -1) ELSE NoCall
        ELSE IF s = 1 THEN IF b.rows[i].count = N - 1
                           THEN scan_row(b, i, 0, -1, -1) ELSE NoCall
        ELSE IF s = 2 THEN IF b.cols[i].count = N - 1
                           THEN scan_col(b, i, 0, -1, -1) ELSE NoCall
        ELSE IF s = 3 THEN IF b.boxs[i].count = N - 1
                           THEN scan_box(b, i) ELSE NoCall
        ELSE IF s < 4 + N THEN scan_square(b, i, s - 4)
        ELSE scan_once(b, (t \div (3 * N)) + 1, (t % (3 * N)) \div 3, t % 3)

\* The first slot in lo .. hi-1 where the round calls board_insert or
\* returns, RoundSlots when there is none: the slots are tried in order,
\* lower half first.
RECURSIVE first_site(_, _, _)
first_site(b, lo, hi) ==
    IF lo >= hi THEN RoundSlots
    ELSE IF hi - lo = 1
    THEN IF site_call(b, lo).kind # "none" THEN lo ELSE RoundSlots
    ELSE LET mid == (lo + hi) \div 2
             l   == first_site(b, lo, mid)
         IN  IF l < RoundSlots THEN l ELSE first_site(b, mid, hi)

\* The first slot from pos on where the round calls board_insert or
\* returns; RoundSlots when the round ends without either.
next_site(b, pos) == first_site(b, pos, RoundSlots)

\* One pass of the guess scan of board_solve over the scratch board nb, for
\* one num_possible = k, in row-major order from square number p: the first
\* square with k notes is the guess, with its smallest note; an empty square
\* without notes met on the way returns.
RECURSIVE scan_guess(_, _, _)
scan_guess(nb, k, p) ==
    IF p >= N * N THEN NoCall
    ELSE LET i == p \div N
             j == p % N
             h == nb.notes[i][j]
         IN  IF h.count = k
             THEN IF heatmap_members(h) = {}
                  THEN scan_guess(nb, k, p + 1)
                  ELSE InsertCall(i + 1, j + 1,
                          CHOOSE v \in heatmap_members(h) :
                             \A w \in heatmap_members(h) : v <= w)
             ELSE IF nb.data[i][j] = 0 /\ h.count = 0 THEN ReturnCall
             ELSE scan_guess(nb, k, p + 1)

\* "for (int num_possible = 1; num_possible < size; num_possible++)": the
\* passes from num_possible = k on, up to the first that guesses or returns.
RECURSIVE select_guess(_, _)
select_guess(nb, k) ==
    IF k >= N THEN NoCall
    ELSE LET r == scan_guess(nb, k, 0)
         IN  IF r.kind # "none" THEN r ELSE select_guess(nb, k + 1)

(***************************************************************************)
(* The input of main after the size: the clues (row, col, val) it reads,   *)
(* in order, up to the val 0 that ends them. The inputs are every list of  *)
(* at most MaxClues clues, the filled valid grids square by square, and    *)
(* the lists named below. With MaxClues clues or fewer no guess of         *)
(* board_solve fails; the named lists are where guesses are retracted and  *)
(* calls return 1.                                                         *)
(***************************************************************************)
\* All filled grids that obey the row, column and box rule, built row by
\* row from the permutations of 1 .. N (the brute-force reference of the
\* properties as well).
RowPerms == { p \in [Idx -> Vals] : \A a, b \in Idx : a # b => p[a] # p[b] }
\* partial: the sequences of k rows with no value twice in a column or box.
RECURSIVE grids_from(_, _)
grids_from(k, partial) ==
    IF k = N THEN partial
    ELSE grids_from(k + 1,
            UNION { { Append(g, p) : p \in
                        { q \in RowPerms :
                            \A r \in 1 .. k : \A c, d \in Idx :
                                (g[r][c] = q[d]) =>
                                    /\ c # d
                                    /\ box_finder(r - 1, c) # box_finder(k, d) } }
                    : g \in partial })
AllSolutions ==
    { [i \in Idx |-> g[i + 1]] : g \in grids_from(0, { <<>> }) }

\* The filled squares of a grid as clues (row, col, val), in row-major order.
grid_clues(g) ==
    LET all == [p \in 1 .. N * N |->
                   << ((p - 1) \div N) + 1, ((p - 1) % N) + 1,
                      g[(p - 1) \div N][(p - 1) % N] >>]
    IN  SelectSeq(all, LAMBDA c : c[3] # 0)

\* The 4x4 example: row 1 = (1, 2, 3, 4), row 2 = (_, 3, 4, 1).
Example11 ==
    << <<1, 1, 1>>, <<1, 2, 2>>, <<1, 3, 3>>, <<1, 4, 4>>,
       <<2, 2, 3>>, <<2, 3, 4>>, <<2, 4, 1>> >>
\* No solution, found after guesses: 0100/0002/2001/0000.
InputNoSolution ==
    << <<1, 2, 1>>, <<2, 4, 2>>, <<3, 1, 2>>, <<3, 4, 1>> >>
\* Solved after a guess that fails: 0010/0002/4001/0000.
InputRetract ==
    << <<1, 3, 1>>, <<2, 4, 2>>, <<3, 1, 4>>, <<3, 4, 1>> >>
\* No solution, found after guesses, with three clues.
InputNoSolutionLow == << <<2, 4, 1>>, <<3, 3, 2>>, <<4, 2, 1>> >>
InputNoSolutionHigh == << <<1, 1, 4>>, <<2, 3, 3>>, <<3, 2, 3>> >>
\* Two squares of a unit that can only take the same value.
InputTwins == << <<1, 1, 1>>, <<1, 2, 2>>, <<2, 4, 3>> >>
InputTwinsLow == << <<3, 4, 1>>, <<4, 1, 2>>, <<4, 2, 3>> >>
InputTwinsRight == << <<1, 3, 1>>, <<3, 4, 2>>, <<4, 4, 3>> >>
InputTwinsLate ==
    << <<1, 2, 4>>, <<1, 3, 2>>, <<2, 4, 1>>, <<3, 1, 1>> >>
\* Three and four clues spread over the rows, columns and boxes.
InputDiagonal == << <<1, 1, 1>>, <<2, 2, 2>>, <<3, 3, 3>> >>
InputOnes == << <<1, 1, 1>>, <<2, 3, 1>>, <<3, 2, 1>>, <<4, 4, 1>> >>
InputSpread == << <<4, 4, 1>>, <<2, 2, 1>>, <<1, 3, 1>> >>
InputNotes == << <<1, 3, 1>>, <<3, 1, 2>>, <<3, 4, 3>> >>

Clues == MainIdx \X MainIdx \X Vals
Inputs ==
    UNION { [1 .. k -> Clues] : k \in 0 .. MaxClues }
        \cup { grid_clues(g) : g \in AllSolutions }
        \cup { Example11, InputNoSolution, InputRetract,
               InputNoSolutionLow, InputNoSolutionHigh, InputTwins,
               InputTwinsLow, InputTwinsRight, InputTwinsLate,
               InputDiagonal, InputOnes, InputSpread, InputNotes }

(***************************************************************************)
(* The program state.                                                      *)
(*   heap      the boards that are allocated, by address; board 1 is the   *)
(*             client's board (main.c)                                     *)
(*   nalloc    the number of board_create calls so far                     *)
(*   stack     the active board_solve calls, the outermost first           *)
(*   pcMain    where main is: placing clues, inside board_solve, done      *)
(*   result    what the outermost board_solve returned (-1 before)         *)
(*   lastCall  the most recent board_insert call and what it returned      *)
(*   given     the grid as it was when main called board_solve             *)
(*   notesRuns the number of board_make_notes runs so far                  *)
(*   input     the clues main has still to read                            *)
(***************************************************************************)
VARIABLES heap, nalloc, stack, pcMain, result, lastCall, given, notesRuns, input

vars == <<heap, nalloc, stack, pcMain, result, lastCall, given, notesRuns,
          input>>

NoInsert ==
    [by |-> "none", at |-> 0, b |-> 0, row |-> 0, col |-> 0, val |-> 0, ret |-> 0]

Called(by, at, b, row, col, val, ret) ==
    [by |-> by, at |-> at, b |-> b, row |-> row, col |-> col, val |-> val,
     ret |-> ret]

Init ==
    /\ heap = [id \in {1} |-> board_create]
    /\ nalloc = 1
    /\ stack = <<>>
    /\ pcMain = "input"
    /\ result = -1
    /\ lastCall = NoInsert
    /\ given = board_create.data
    /\ notesRuns = 0
    /\ input \in Inputs

\* The first of the assertions of board_insert that its arguments fail
\* ("none" when they pass them all).
insert_assert(row, col, val) ==
    IF ~(row > 0) THEN "assert(row > 0)"
    ELSE IF ~(row <= N) THEN "assert(row <= size)"
    ELSE IF ~(col > 0) THEN "assert(col > 0)"
    ELSE IF ~(col <= N) THEN "assert(col <= size)"
    ELSE IF ~(val > 0) THEN "assert(val > 0)"
    ELSE IF ~(val <= N) THEN "assert(val <= size)"
    ELSE "none"

\* main: one turn of its input loop, "printf("%d\n", board_insert(b, row,
\* col, val))" for the clue read. A failed assertion of board_insert aborts
\* the program: pcMain names it.
ClientInsert ==
    /\ pcMain = "input"
    /\ input # <<>>
    /\ LET row == Head(input)[1]
           col == Head(input)[2]
           val == Head(input)[3]
       IN  IF insert_assert(row, col, val) # "none"
           THEN /\ pcMain' = insert_assert(row, col, val)
                /\ UNCHANGED <<heap, lastCall>>
           ELSE LET r == board_insert(heap[1], row, col, val)
                IN  /\ heap' = [heap EXCEPT ![1] = r.b]
                    /\ lastCall' = Called("client", 0, 1, row, col, val, r.ret)
                    /\ UNCHANGED pcMain
    /\ input' = Tail(input)
    /\ UNCHANGED <<nalloc, stack, result, given, notesRuns>>

\* The test of the propagation loop, "while (total_appearances < size * size
\* && total_appearances > old_total_appearances)", and the first statement
\* of its body. In a round, pos is the slot of the next board_insert call or
\* return (RoundSlots when the round will end without one).
loop_test(f, b) ==
    IF b.total_appearances < N * N /\ b.total_appearances > f.old
    THEN [f EXCEPT !.pc = "prop", !.old = b.total_appearances,
                   !.pos = next_site(b, 0)]
    ELSE [f EXCEPT !.pc = "after"]

\* The frame of board_solve(b, n) once board_make_notes has run (b is the
\* board with its notes made) and the loop has been tested for the first time.
new_frame(id, n, b) ==
    loop_test([b |-> id, n |-> n, pc |-> "loop",
               old |-> b.total_appearances - 1, pos |-> 0,
               new_b |-> 0, updated |-> FALSE,
               row |-> -1, col |-> -1, val |-> -1, guess_ret |-> 1], b)

\* main: val 0 ends the input loop; int result = board_solve(b, 1).
ClientSolve ==
    /\ pcMain = "input"
    /\ input = <<>>
    /\ pcMain' = "solving"
    /\ given' = heap[1].data
    /\ heap' = [heap EXCEPT ![1] = board_make_notes(@)]
    /\ stack' = << new_frame(1, 1, board_make_notes(heap[1])) >>
    /\ lastCall' = NoInsert
    /\ notesRuns' = notesRuns + 1
    /\ UNCHANGED <<nalloc, result, input>>

Depth == Len(stack)
Top == stack[Depth]
TopB == heap[Top.b]
InSolve(pc) == Depth > 0 /\ Top.pc = pc
SetTop(f) == [stack EXCEPT ![Depth] = f]

\* "return v" of the innermost board_solve call: main receives the result,
\* or the caller's guess_ret does.
Return(v) ==
    IF Depth = 1
    THEN /\ stack' = <<>>
         /\ pcMain' = "done"
         /\ result' = v
    ELSE /\ stack' = [SubSeq(stack, 1, Depth - 1) EXCEPT
                        ![Depth - 1].guess_ret = v, ![Depth - 1].pc = "got"]
         /\ UNCHANGED <<pcMain, result>>

\* The next board_insert call of the propagation round, and the scan on to
\* the slot of the call after it.
PropInsert ==
    /\ InSolve("prop")
    /\ Top.pos < RoundSlots
    /\ site_call(TopB, Top.pos).kind = "insert"
    /\ LET c == site_call(TopB, Top.pos)
           r == board_insert(TopB, c.row, c.col, c.val)
       IN  /\ heap' = [heap EXCEPT ![Top.b] = r.b]
           /\ lastCall' = Called("prop", Top.pos, Top.b, c.row, c.col, c.val, r.ret)
           /\ stack' = SetTop([Top EXCEPT !.pos = next_site(r.b, Top.pos + 1)])
    /\ UNCHANGED <<nalloc, pcMain, result, given, notesRuns, input>>

\* The round meets an empty square without notes: return 1.
PropContradiction ==
    /\ InSolve("prop")
    /\ Top.pos < RoundSlots
    /\ site_call(TopB, Top.pos).kind = "return"
    /\ Return(1)
    /\ UNCHANGED <<heap, nalloc, lastCall, given, notesRuns, input>>

\* The round ends; the loop is tested again.
RoundEnd ==
    /\ InSolve("prop")
    /\ Top.pos = RoundSlots
    /\ stack' = SetTop(loop_test(Top, TopB))
    /\ UNCHANGED <<heap, nalloc, pcMain, result, lastCall, given,
                 notesRuns, input>>

\* A faulty test of fullness, off by one.
is_full_strict(b) == b.total_appearances > N * N

\* The test of "if (b->total_appearances >= size * size)".
is_full(b) == b.total_appearances >= N * N

\* "if (b->total_appearances >= size * size) return 0;"
SolveFull ==
    /\ InSolve("after")
    /\ is_full(TopB)
    /\ Return(0)
    /\ UNCHANGED <<heap, nalloc, lastCall, given, notesRuns, input>>

\* "struct board *new_b = board_create(size);" and the locals of the guess.
GuessAlloc ==
    /\ InSolve("after")
    /\ ~is_full(TopB)
    /\ nalloc' = nalloc + 1
    /\ heap' = [id \in DOMAIN heap \cup {nalloc + 1} |->
                   IF id = nalloc + 1 THEN board_create ELSE heap[id]]
    /\ stack' = SetTop([Top EXCEPT !.pc = "guess", !.new_b = nalloc + 1,
                                   !.updated = FALSE, !.row = -1, !.col = -1,
                                   !.val = -1, !.guess_ret = 1])
    /\ UNCHANGED <<pcMain, result, lastCall, given, notesRuns, input>>

\* "while (guess_ret == 1) { board_copy(new_b, b); row = col = val = -1;
\* updated = 0;"
GuessCopy ==
    /\ InSolve("guess")
    /\ Top.guess_ret = 1
    /\ heap' = [heap EXCEPT ![Top.new_b] = board_copy(@, TopB)]
    /\ stack' = SetTop([Top EXCEPT !.pc = "select", !.updated = FALSE,
                                   !.row = -1, !.col = -1, !.val = -1])
    /\ UNCHANGED <<nalloc, pcMain, result, lastCall, given, notesRuns, input>>

\* The scan finds the guess and inserts it into new_b.
GuessInsert ==
    /\ InSolve("select")
    /\ LET g == select_guess(heap[Top.new_b], 1)
       IN  /\ g.kind = "insert"
           /\ LET r == board_insert(heap[Top.new_b], g.row, g.col, g.val)
              IN  /\ heap' = [heap EXCEPT ![Top.new_b] = r.b]
                  /\ lastCall' = Called("guess", 0, Top.new_b, g.row, g.col,
                                        g.val, r.ret)
           /\ stack' = SetTop([Top EXCEPT !.pc = "call", !.updated = TRUE,
                                          !.row = g.row - 1, !.col = g.col - 1,
                                          !.val = g.val])
    /\ UNCHANGED <<nalloc, pcMain, result, given, notesRuns, input>>

\* The scan meets an empty square without notes: return 1, with new_b still
\* allocated.
GuessGiveUp ==
    /\ InSolve("select")
    /\ select_guess(heap[Top.new_b], 1).kind = "return"
    /\ Return(1)
    /\ UNCHANGED <<heap, nalloc, lastCall, given, notesRuns, input>>

\* The scan ends without a square of 1 .. size-1 notes: nothing is inserted.
GuessNone ==
    /\ InSolve("select")
    /\ select_guess(heap[Top.new_b], 1).kind = "none"
    /\ stack' = SetTop([Top EXCEPT !.pc = "call"])
    /\ UNCHANGED <<heap, nalloc, pcMain, result, lastCall, given,
                 notesRuns, input>>

\* "guess_ret = board_solve(new_b, n + 1);": the call, up to the first test
\* of the callee's loop.
Recurse ==
    /\ InSolve("call")
    /\ Depth < MaxDepth
    /\ LET nb == board_make_notes(heap[Top.new_b])
       IN  /\ heap' = [heap EXCEPT ![Top.new_b] = nb]
           /\ stack' = Append(SetTop([Top EXCEPT !.pc = "wait"]),
                              new_frame(Top.new_b, Top.n + 1, nb))
    /\ notesRuns' = notesRuns + 1
    /\ UNCHANGED <<nalloc, pcMain, result, lastCall, given, input>>

\* "if (guess_ret == 0) { board_copy(b, new_b);"
GuessCommit ==
    /\ InSolve("got")
    /\ Top.guess_ret = 0
    /\ heap' = [heap EXCEPT ![Top.b] = board_copy(@, heap[Top.new_b])]
    /\ stack' = SetTop([Top EXCEPT !.pc = "destroy"])
    /\ UNCHANGED <<nalloc, pcMain, result, lastCall, given, notesRuns, input>>

\* "board_destroy(new_b); return guess_ret; }"
GuessDestroy ==
    /\ InSolve("destroy")
    /\ heap' = [id \in DOMAIN heap \ {Top.new_b} |-> heap[id]]
    /\ Return(Top.guess_ret)
    /\ UNCHANGED <<nalloc, lastCall, given, notesRuns, input>>

\* A faulty retraction that takes the note off the scratch board.
GuessRetractScratch ==
    /\ InSolve("got")
    /\ Top.guess_ret # 0
    /\ IF Top.updated
       THEN /\ heap' = [heap EXCEPT ![Top.new_b].notes[Top.row][Top.col] =
                           heatmap_off(@, Top.val)]
            /\ stack' = SetTop([Top EXCEPT !.pc = "guess"])
       ELSE /\ stack' = SetTop([Top EXCEPT !.pc = "undefined"])
            /\ UNCHANGED heap
    /\ UNCHANGED <<nalloc, pcMain, result, lastCall, given, notesRuns, input>>

\* "else { heatmap_off((b->notes)[row][col], val); }" and back to the test
\* of the guess loop. With row = col = val = -1 (no guess was made) the
\* access is out of bounds: the call stops there.
GuessRetract ==
    /\ InSolve("got")
    /\ Top.guess_ret # 0
    /\ IF Top.updated
       THEN /\ heap' = [heap EXCEPT ![Top.b].notes[Top.row][Top.col] =
                           heatmap_off(@, Top.val)]
            /\ stack' = SetTop([Top EXCEPT !.pc = "guess"])
       ELSE /\ stack' = SetTop([Top EXCEPT !.pc = "undefined"])
            /\ UNCHANGED heap
    /\ UNCHANGED <<nalloc, pcMain, result, lastCall, given, notesRuns, input>>

\* main: board_print(b) (no change of state); board_destroy(b);
\* printf("%d\n", result).
ClientDestroy ==
    /\ pcMain = "done"
    /\ pcMain' = "exit"
    /\ heap' = [id \in DOMAIN heap \ {1} |-> heap[id]]
    /\ UNCHANGED <<nalloc, stack, result, lastCall, given, notesRuns, input>>

Next ==
    \/ ClientInsert
    \/ ClientSolve
    \/ PropInsert
    \/ PropContradiction
    \/ RoundEnd
    \/ SolveFull
    \/ GuessAlloc
    \/ GuessCopy
    \/ GuessInsert
    \/ GuessGiveUp
    \/ GuessNone
    \/ Recurse
    \/ GuessCommit
    \/ GuessDestroy
    \/ GuessRetract
    \/ ClientDestroy

Spec == Init /\ [][Next]_vars

(***************************************************************************)
(* Vocabulary of the properties: grids, units and completions, read off    *)
(* the grid alone (never off the used-sets the program maintains).         *)
(***************************************************************************)
Squares == Idx \X Idx
At(g, s) == g[s[1]][s[2]]
Units ==
    { RowSquares[i] : i \in Idx } \cup { ColSquares[i] : i \in Idx }
        \cup { { s \in Squares : box_finder(s[1], s[2]) = i } : i \in Idx }
Peers(s) == UNION { U \in Units : s \in U }

Full(g) == \A s \in Squares : At(g, s) # 0
\* Every unit holds every value in exactly one square.
ValidSolution(g) ==
    \A U \in Units : \A v \in Vals :
        Cardinality({ s \in U : At(g, s) = v }) = 1
Extends(g, clues) == \A s \in Squares : At(clues, s) # 0 => At(g, s) = At(clues, s)
Empties(g) == Cardinality({ s \in Squares : At(g, s) = 0 })

HasCompletion(clues) == \E g \in AllSolutions : Extends(g, clues)

\* The grid the scratch board of frame f held when board_solve was called on
\* it: the caller's grid with the guess.
GuessedGrid(f) ==
    IF f.updated THEN [heap[f.b].data EXCEPT ![f.row][f.col] = f.val]
    ELSE heap[f.b].data

Frames == { stack[k] : k \in 1 .. Depth }
\* The frames whose recursive call has just returned v.
Returned(v) == { f \in Frames : f.pc = "got" /\ f.guess_ret = v }

(***************************************************************************)
(* C1. Whenever board_solve returns SOLVED (0), to main or to the guess    *)
(* loop of its caller, the grid it leaves is completely filled, every row, *)
(* column and box holds each value exactly once, and every square that was *)
(* filled at the call still holds its value.                               *)
(***************************************************************************)
SolvedIsValidExtension ==
    /\ (pcMain = "done" /\ result = 0) =>
          /\ Full(heap[1].data)
          /\ ValidSolution(heap[1].data)
          /\ Extends(heap[1].data, given)
    /\ \A f \in Returned(0) :
          /\ Full(heap[f.new_b].data)
          /\ ValidSolution(heap[f.new_b].data)
          /\ Extends(heap[f.new_b].data, GuessedGrid(f))

\* main has its SOLVED answer for a board with clues that needed guesses.
SolvedAfterGuessing ==
    /\ pcMain = "done" /\ result = 0
    /\ Empties(given) < N * N
    /\ nalloc > 2

(***************************************************************************)
(* C2. board_solve reports UNSOLVABLE (1) only when the placements it was  *)
(* called with have no valid completion: a call on a grid that some        *)
(* solution extends, if it returns, returns SOLVED.                        *)
(***************************************************************************)
UnsolvableOnlyWithoutCompletion ==
    /\ (pcMain = "done" /\ HasCompletion(given)) => result = 0
    /\ \A f \in Returned(1) : ~HasCompletion(GuessedGrid(f))

\* A guess was refuted, retracted, and the next guess led to the solution.
SolvedAfterRetraction ==
    /\ \E f \in Returned(0) :
          /\ HasCompletion(GuessedGrid(f))
          /\ \E v \in Vals : /\ v < f.val
                             /\ ~HasCompletion([heap[f.b].data EXCEPT
                                                  ![f.row][f.col] = v])
                             /\ Peers(<<f.row, f.col>>) \cap
                                  { s \in Squares : At(heap[f.b].data, s) = v } = {}

(***************************************************************************)
(* C3. board_solve terminates on every board reachable by zero or more     *)
(* board_insert calls, with the nesting of board_solve calls (the calls    *)
(* below the outermost one) never deeper than the number of empty squares  *)
(* of the board main passed.                                               *)
(***************************************************************************)
DepthWithinEmpties ==
    pcMain = "solving" => Depth - 1 <= Empties(given)

(***************************************************************************)
(* Steps that are a board_insert call: lastCall' names the call (who made  *)
(* it, on which board, with which arguments) and what it returned.         *)
(***************************************************************************)
InsertStep == lastCall' # lastCall /\ lastCall'.by # "none"
CallSquare == <<lastCall'.row - 1, lastCall'.col - 1>>
CallBefore == heap[lastCall'.b]
CallAfter == heap'[lastCall'.b]
\* The value is already in the row, the column or the box of the square.
GridHolds(g, s, v) == \E t \in Peers(s) : At(g, t) = v

(***************************************************************************)
(* C4. board_insert(row, col, val) on an empty square whose row, column    *)
(* and box do not hold val returns 0 (OK) and leaves exactly: the square   *)
(* set to val, appearances[val] and total_appearances one higher, val in   *)
(* the used-sets of the row, the column and the box, no note on the        *)
(* square, val off in the notes of every square of the row, column and     *)
(* box; every other square, used-set member and note as before.            *)
(***************************************************************************)
InsertOkIsExact ==
    [][ (/\ InsertStep
         /\ At(CallBefore.data, CallSquare) = 0
         /\ ~GridHolds(CallBefore.data, CallSquare, lastCall'.val))
        =>
        LET r == CallSquare[1]
            c == CallSquare[2]
            v == lastCall'.val
            pre == CallBefore
            post == CallAfter
        IN  /\ lastCall'.ret = 0
            /\ post.data = [pre.data EXCEPT ![r][c] = v]
            /\ post.appearances = [pre.appearances EXCEPT ![v - 1] = @ + 1]
            /\ post.total_appearances = pre.total_appearances + 1
            /\ \A i \in Idx : \A w \in Vals :
                  /\ heatmap_check(post.rows[i], w) <=>
                        (heatmap_check(pre.rows[i], w) \/ (i = r /\ w = v))
                  /\ heatmap_check(post.cols[i], w) <=>
                        (heatmap_check(pre.cols[i], w) \/ (i = c /\ w = v))
                  /\ heatmap_check(post.boxs[i], w) <=>
                        (heatmap_check(pre.boxs[i], w)
                            \/ (i = (r \div Root) * Root + (c \div Root) /\ w = v))
            /\ \A s \in Squares : \A w \in Vals :
                  heatmap_check(At(post.notes, s), w) <=>
                     /\ heatmap_check(At(pre.notes, s), w)
                     /\ s # CallSquare
                     /\ ~(w = v /\ s \in Peers(CallSquare))
            /\ \A id \in DOMAIN heap \ {lastCall'.b} : heap'[id] = heap[id]
      ]_vars

\* A propagation insert succeeded on a board where the value was still a
\* note of another square of the same box.
InsertedWhereNoted ==
    /\ lastCall.by = "prop" /\ lastCall.ret = 0
    /\ Depth > 0
    /\ \E f \in Frames : /\ f.new_b = lastCall.b
                         /\ f.pc = "wait"
                         /\ \E s \in Squares :
                               /\ box_finder(s[1], s[2]) =
                                     box_finder(lastCall.row - 1, lastCall.col - 1)
                               /\ s[1] # lastCall.row - 1
                               /\ s[2] # lastCall.col - 1
                               /\ heatmap_check(At(heap[f.b].notes, s), lastCall.val)
                               /\ At(heap[lastCall.b].data, s) = 0

(***************************************************************************)
(* C5. board_insert of a value that the row, the column or the box of an   *)
(* empty square already holds returns 2 (CONFLICT) and leaves the whole    *)
(* board as it was: grid, used-sets and their counts, notes, appearances   *)
(* and total_appearances.                                                  *)
(***************************************************************************)
ConflictChangesNothing ==
    [][ (/\ InsertStep
         /\ At(CallBefore.data, CallSquare) = 0
         /\ GridHolds(CallBefore.data, CallSquare, lastCall'.val))
        => (lastCall'.ret = 2 /\ heap' = heap)
      ]_vars

\* A conflict has been reported on a value held in the column only.
ConflictReported ==
    /\ lastCall.ret = 2
    /\ LET g == heap[lastCall.b].data
           r == lastCall.row - 1
           c == lastCall.col - 1
       IN  /\ At(g, <<r, c>>) = 0
           /\ \E i \in Idx : g[i][c] = lastCall.val
           /\ \A t \in Peers(<<r, c>>) :
                 At(g, t) = lastCall.val => (t[2] = c /\ t[1] \div Root # r \div Root)

(***************************************************************************)
(* C6. board_insert on a filled square returns 1 (ALREADY_FILLED) for      *)
(* every val, also when val conflicts, and changes nothing; so a second    *)
(* insert of the same (row, col, val) after one that returned OK returns   *)
(* ALREADY_FILLED and leaves the state of the first.                       *)
(***************************************************************************)
FilledChangesNothing ==
    [][ /\ (InsertStep /\ At(CallBefore.data, CallSquare) # 0)
            => (lastCall'.ret = 1 /\ heap' = heap)
        /\ (/\ InsertStep
            /\ lastCall.ret = 0
            /\ lastCall'.b = lastCall.b /\ lastCall'.row = lastCall.row
            /\ lastCall'.col = lastCall.col /\ lastCall'.val = lastCall.val)
            => (lastCall'.ret = 1 /\ heap' = heap)
      ]_vars

\* The same value has been offered again to the square that holds it.
ReinsertRefused ==
    /\ lastCall.ret = 1
    /\ At(heap[lastCall.b].data, <<lastCall.row - 1, lastCall.col - 1>>) = lastCall.val

(***************************************************************************)
(* C7. After every board_insert, whoever called it and whatever it         *)
(* returned, and at every return of board_solve, on every board: a         *)
(* used-set of a row, column or box (box = (r / R) * R + c / R) holds v    *)
(* iff a square of the unit holds v, its count is the number of filled     *)
(* squares of the unit, a filled square has no notes, appearances[v] is    *)
(* the number of squares holding v and total_appearances the number of     *)
(* filled squares.                                                         *)
(***************************************************************************)
UsedSetMatches(h, g, U) ==
    /\ \A v \in Vals : heatmap_check(h, v) <=> \E s \in U : At(g, s) = v
    /\ h.count = Cardinality({ s \in U : At(g, s) # 0 })

BoardConsistent(b) ==
    /\ \A i \in Idx :
          /\ UsedSetMatches(b.rows[i], b.data, { s \in Squares : s[1] = i })
          /\ UsedSetMatches(b.cols[i], b.data, { s \in Squares : s[2] = i })
          /\ UsedSetMatches(b.boxs[i], b.data,
                { s \in Squares : (s[1] \div Root) * Root + (s[2] \div Root) = i })
    /\ \A s \in Squares :
          At(b.data, s) # 0 => \A v \in Vals : ~heatmap_check(At(b.notes, s), v)
    /\ \A v \in Vals :
          b.appearances[v - 1] = Cardinality({ s \in Squares : At(b.data, s) = v })
    /\ b.total_appearances = Cardinality({ s \in Squares : At(b.data, s) # 0 })

BoardsConsistent == \A id \in DOMAIN heap : BoardConsistent(heap[id])

\* A scratch board after propagation filled it completely, before it is
\* merged into its caller's board.
ScratchSolved ==
    \E f \in Returned(0) :
        /\ heap[f.new_b].total_appearances = N * N
        /\ heap[f.b].total_appearances < N * N - 1
        /\ lastCall.by = "prop" /\ lastCall.b = f.new_b

(***************************************************************************)
(* C8. board_solve returns 1 if it solved the board and 0 if no solution   *)
(* was possible (board.h).                                                 *)
(***************************************************************************)
ReturnsAsDocumented ==
    pcMain = "done" =>
        /\ (Full(heap[1].data) /\ ValidSolution(heap[1].data)) => result = 1
        /\ ~HasCompletion(given) => result = 0

(***************************************************************************)
(* The boards of the active calls and their scratch boards. A frame holds  *)
(* a clone of its board from board_copy until the guess is retracted or    *)
(* the clone is merged back.                                               *)
(***************************************************************************)
Cloned(f) == f.pc \in { "select", "call", "wait", "got" }
NotesWithin(child, parent) ==
    \A s \in Squares : \A v \in Vals :
        heatmap_check(At(child.notes, s), v) => heatmap_check(At(parent.notes, s), v)
\* Every scratch board that is a clone, against the board of its frame and
\* of every frame above it.
NotesShrink ==
    \A j \in 1 .. Depth : Cloned(stack[j]) =>
        \A k \in 1 .. j : NotesWithin(heap[stack[j].new_b], heap[stack[k].b])
\* A step that enters board_solve, from main or from the guess loop.
SolveCallStep == Depth' = Depth + 1

(***************************************************************************)
(* C9, as the specification states it. board_make_notes runs exactly once  *)
(* in one top-level board_solve, never in a recursive call, and the notes  *)
(* of a scratch board stay within the notes of the board it was cloned     *)
(* from.                                                                   *)
(***************************************************************************)
NotesMadeOnce ==
    /\ pcMain \in {"solving", "done", "exit"} => notesRuns = 1
    /\ NotesShrink

(***************************************************************************)
(* C9, as the code has it. board_make_notes runs at the start of every     *)
(* board_solve call, the recursive ones on scratch boards included; on a   *)
(* scratch board the run changes nothing, and the notes of a scratch board *)
(* stay within the notes of the board it was cloned from and of every      *)
(* board above: a retracted value is not noted again below.                *)
(***************************************************************************)
NotesRemadeButShrink ==
    /\ []NotesShrink
    /\ [][ SolveCallStep =>
             /\ notesRuns' = notesRuns + 1
             /\ Depth > 0 => heap' = heap
         ]_vars

\* A recursive call is in its propagation rounds, on a clone with empty
\* squares, below a board from which a guess was retracted.
RemadeBelowRetraction ==
    /\ Depth >= 2
    /\ notesRuns >= 2
    /\ Top.pc = "prop"
    /\ TopB.total_appearances < N * N
    /\ \E k \in 1 .. (Depth - 1) : \E s \in Squares : \E v \in Vals :
          /\ At(heap[stack[k].b].data, s) = 0
          /\ ~GridHolds(heap[stack[k].b].data, s, v)
          /\ ~heatmap_check(At(heap[stack[k].b].notes, s), v)

(***************************************************************************)
(* The steps of board_solve that copy a board or retract a guess.          *)
(***************************************************************************)
CopyToScratchStep ==
    InSolve("guess") /\ Depth' = Depth /\ stack'[Depth].pc = "select"
CopyBackStep ==
    InSolve("got") /\ Depth' = Depth /\ stack'[Depth].pc = "destroy"
RetractStep ==
    InSolve("got") /\ Depth' = Depth /\ stack'[Depth].pc = "guess"
OthersKept(id) == \A o \in DOMAIN heap \ {id} : heap'[o] = heap[o]

(***************************************************************************)
(* C10. board_copy(dest, src) leaves dest equal to src in grid, used-sets  *)
(* with their counts, appearances, total_appearances and notes, whatever   *)
(* dest held (a fresh board, the clone a failed recursive call left, the   *)
(* caller's board at the merge), and leaves src and every other board as   *)
(* they were; an insert or a retraction changes the board it is applied to *)
(* and no other.                                                           *)
(***************************************************************************)
CopyIsDeep ==
    [][ /\ CopyToScratchStep =>
              (heap'[Top.new_b] = heap[Top.b] /\ OthersKept(Top.new_b))
        /\ CopyBackStep =>
              (heap'[Top.b] = heap[Top.new_b] /\ OthersKept(Top.b))
        /\ InsertStep => OthersKept(lastCall'.b)
        /\ RetractStep => OthersKept(Top.b)
      ]_vars

\* A clone has just been remade over what a failed recursive call left: the
\* board it was made from has lost a note to a retraction.
ClonedOverFailure ==
    /\ InSolve("select")
    /\ heap[Top.new_b] = TopB
    /\ \E s \in Squares : \E v \in Vals :
          /\ At(TopB.data, s) = 0
          /\ ~GridHolds(TopB.data, s, v)
          /\ ~heatmap_check(At(TopB.notes, s), v)

\* The board main has built when it has offered a list of clues to
\* board_insert, one after the other, whatever each call returned.
RECURSIVE offered(_, _, _)
offered(b, clues, k) ==
    IF k > Len(clues) THEN b
    ELSE offered(board_insert(b, clues[k][1], clues[k][2], clues[k][3]).b,
                 clues, k + 1)

Example11Board == offered(board_create, Example11, 1)

Row(g, i) == << g[i][0], g[i][1], g[i][2], g[i][3] >>

(***************************************************************************)
(* C11, as the specification states it. With the clues of the example      *)
(* offered, board_solve fills square (2, 1) with 2 and leaves row 2 as     *)
(* (2, 3, 4, 1).                                                           *)
(***************************************************************************)
ExampleRowAsStated ==
    (pcMain = "done" /\ given = Example11Board.data) =>
        Row(heap[1].data, 1) = <<2, 3, 4, 1>>

(***************************************************************************)
(* C11, as the code has it. The clues of the example cannot all be placed: *)
(* 4 at (2, 3) is in the box of 4 at (1, 4), board_insert reports the      *)
(* conflict and row 2 is (_, 3, _, 1) when board_solve is called. The      *)
(* propagation fills row 2 to (4, 3, 2, 1) before any scratch board is     *)
(* created, and board_solve returns 0 with that row 2.                     *)
(***************************************************************************)
ExampleRowAsBuilt ==
    /\ Row(Example11Board.data, 0) = <<1, 2, 3, 4>>
    /\ Row(Example11Board.data, 1) = <<0, 3, 0, 1>>
    /\ board_insert(offered(board_create, SubSeq(Example11, 1, 5), 1), 2, 3, 4).ret = 2
    /\ (pcMain \in {"solving", "done"} /\ given = Example11Board.data) =>
          /\ nalloc > 1 => Row(heap[1].data, 1) = <<4, 3, 2, 1>>
          /\ Row(heap[1].data, 1) \in
                { <<0, 3, 0, 1>>, <<4, 3, 0, 1>>, <<0, 3, 2, 1>>, <<4, 3, 2, 1>> }
          /\ pcMain = "done" =>
                (result = 0 /\ Row(heap[1].data, 1) = <<4, 3, 2, 1>>)

\* board_solve has returned on the board of the example, after guesses.
ExampleSolved ==
    /\ pcMain = "done"
    /\ given = Example11Board.data
    /\ nalloc > 1

(***************************************************************************)
(* C13. board_solve on a completely filled valid grid returns 0 (SOLVED)   *)
(* and changes nothing: the board is the board main built, field by field, *)
(* and no scratch board is created.                                        *)
(***************************************************************************)
FullGridUntouched ==
    (pcMain \in {"solving", "done", "exit"} /\ Full(given) /\ ValidSolution(given)) =>
        /\ pcMain # "exit" =>
              heap = [id \in {1} |-> offered(board_create, grid_clues(given), 1)]
        /\ nalloc = 1
        /\ pcMain \in {"done", "exit"} => result = 0

\* board_solve has returned on a filled valid grid.
FullGridReturned ==
    /\ pcMain = "done"
    /\ Full(given) /\ ValidSolution(given)
    /\ heap[1].total_appearances = N * N

PeerMap == [s \in Squares |-> Peers(s)]
\* The values an empty square may take by the grid alone: its notes right
\* after board_make_notes.
Candidates(g, s) == { v \in Vals : \A t \in PeerMap[s] : At(g, t) # v }
\* Two empty squares of one unit, each with the same single candidate v.
TwinSingles(g) ==
    LET single == { s \in Squares :
                      At(g, s) = 0 /\ Cardinality(Candidates(g, s)) = 1 }
    IN  \E s, t \in single :
            /\ s # t /\ t \in PeerMap[s]
            /\ Candidates(g, s) = Candidates(g, t)
\* Two squares of one unit, empty in g0, hold the same value in g.
TwinsBothFilled(g0, g) ==
    \E s \in Squares : \E t \in PeerMap[s] :
        /\ s # t
        /\ At(g0, s) = 0 /\ At(g0, t) = 0
        /\ At(g, s) # 0 /\ At(g, s) = At(g, t)
\* What is left of the propagation of the outermost call: the rounds still
\* possible (each new round starts with more squares filled than the one
\* before), then the slots left in the round.
PropLeft == (N * N - stack[1].old) * (RoundSlots + 1) + (RoundSlots - stack[1].pos)

(***************************************************************************)
(* C12. A board_solve call on a board with two empty squares of one unit   *)
(* that have the same single candidate v returns 1 (UNSOLVABLE), to main   *)
(* and to the guess loop of a caller alike, and v is never in both         *)
(* squares. The outermost call terminates: it stays in its propagation     *)
(* rounds, where a step is always possible and every step either returns   *)
(* or leaves less of the propagation to do, and it creates no scratch      *)
(* board.                                                                  *)
(***************************************************************************)
TwinSinglesUnsolvable ==
    /\ [](TwinSingles(given) =>
            /\ pcMain = "done" => result = 1
            /\ nalloc = 1
            /\ 1 \in DOMAIN heap => ~TwinsBothFilled(given, heap[1].data)
            /\ pcMain = "solving" =>
                  /\ Depth = 1
                  /\ Top.pc = "prop"
                  /\ Top.pos <= RoundSlots
                  /\ Top.old < N * N)
    /\ [](\A f \in Returned(0) : ~TwinSingles(GuessedGrid(f)))
    /\ [][ (pcMain = "solving" /\ TwinSingles(given)) =>
              \/ pcMain' = "done"
              \/ (pcMain' = "solving" /\ PropLeft' < PropLeft)
         ]_vars

\* main has its answer for a board with such a pair of squares.
TwinSinglesReturned ==
    /\ pcMain = "done"
    /\ TwinSingles(given)
    /\ result = 1

(***************************************************************************)
(* The guess as the specification describes it: k is the smallest number   *)
(* of notes of an empty square, the square is the first in row-major order *)
(* with k notes, the value its smallest note.                              *)
(***************************************************************************)
EmptySquares(b) == { s \in Squares : At(b.data, s) = 0 }
EveryEmptyNoted(b) ==
    /\ EmptySquares(b) # {}
    /\ \A s \in EmptySquares(b) : At(b.notes, s).count >= 1
LeastNotes(b) ==
    CHOOSE k \in 1 .. N :
        /\ \E s \in EmptySquares(b) : At(b.notes, s).count = k
        /\ \A s \in EmptySquares(b) : At(b.notes, s).count >= k
StatedGuess(b) ==
    LET s == first_square({ t \in EmptySquares(b) :
                              At(b.notes, t).count = LeastNotes(b) })
        v == CHOOSE w \in heatmap_members(At(b.notes, s)) :
                \A x \in heatmap_members(At(b.notes, s)) : w <= x
    IN  [row |-> s[1], col |-> s[2], val |-> v]
\* Frame f is about to recurse with the guess of the specification, on a
\* clone of its board with that one guess inserted.
GuessedAsStated(f) ==
    LET g == StatedGuess(heap[f.b])
    IN  /\ f.updated
        /\ f.row = g.row /\ f.col = g.col /\ f.val = g.val
        /\ heap[f.new_b] =
              board_insert(heap[f.b], g.row + 1, g.col + 1, g.val).b
        /\ heap[f.new_b] # heap[f.b]

(***************************************************************************)
(* C14. Whenever board_solve is about to recurse from a board that has an  *)
(* empty square and notes on every empty square, it has selected the guess *)
(* of the specification (k from 1 up to N) and recurses on a clone with    *)
(* exactly that guess inserted.                                            *)
(***************************************************************************)
GuessSelectedAsStated ==
    \A f \in Frames :
        (f.pc = "call" /\ EveryEmptyNoted(heap[f.b])) => GuessedAsStated(f)

(***************************************************************************)
(* C15. While the recursive call of a guess runs, and while the guess is   *)
(* chosen, the board of the calling frame does not change. When the call   *)
(* has returned 1, the retraction leaves the board as it was but for the   *)
(* note of the guessed value at the guessed square, which was on and is    *)
(* now off. As long as a call is active the notes of its board never gain  *)
(* a value, and a guess is always a value noted on the board of its frame: *)
(* a retracted guess is not selected again.                                *)
(***************************************************************************)
RetractionIsExact ==
    [][ /\ \A k \in 1 .. (Depth - 1) : heap'[stack[k].b] = heap[stack[k].b]
        /\ (Depth > 0 /\ Top.pc \in { "guess", "select", "call" }) =>
              heap'[Top.b] = heap[Top.b]
        /\ (RetractStep /\ Top.updated) =>
              /\ heatmap_check(TopB.notes[Top.row][Top.col], Top.val)
              /\ heap'[Top.b] =
                    [TopB EXCEPT !.notes[Top.row][Top.col] =
                        [count |-> @.count - 1,
                         map   |-> [@.map EXCEPT ![Top.val] = FALSE]]]
        /\ \A k \in 1 .. Depth :
              (Depth' >= k /\ stack'[k].b = stack[k].b) =>
                  NotesWithin(heap'[stack[k].b], heap[stack[k].b])
        /\ \A k \in 1 .. Depth' :
              (stack'[k].pc = "call" /\ stack'[k].updated) =>
                  /\ heatmap_check(
                        heap'[stack'[k].b].notes[stack'[k].row][stack'[k].col],
                        stack'[k].val)
                  /\ heap'[stack'[k].b].data[stack'[k].row][stack'[k].col] = 0
      ]_vars

\* After a retraction the next guess has been made at the same square, with
\* a larger value; the retracted value is off on the board of the frame.
GuessedAgainAfterRetraction ==
    \E f \in Frames :
        /\ f.pc = "call" /\ f.updated
        /\ \E v \in Vals :
              /\ v < f.val
              /\ \A t \in PeerMap[<<f.row, f.col>>] : At(heap[f.b].data, t) # v
              /\ ~heatmap_check(heap[f.b].notes[f.row][f.col], v)

(***************************************************************************)
(* C16. When the propagation of a board_solve call has ended with the      *)
(* board not full (a round ran to its end without filling a square, and no *)
(* contradiction was met), no rule applies to the board: every empty       *)
(* square has at least two notes, no row, column or box has exactly N - 1  *)
(* filled squares, and no value missing from a unit is noted in exactly    *)
(* one square of it.                                                       *)
(***************************************************************************)
NotesOf(b, s) == { v \in Vals : heatmap_check(At(b.notes, s), v) }
RuleFixpoint(b) ==
    /\ \A s \in Squares :
          At(b.data, s) = 0 =>
              (Cardinality(NotesOf(b, s)) >= 2 /\ At(b.notes, s).count >= 2)
    /\ \A U \in Units :
          /\ Cardinality({ s \in U : At(b.data, s) # 0 }) # N - 1
          /\ \A v \in Vals :
                (\A s \in U : At(b.data, s) # v) =>
                    Cardinality({ s \in U : v \in NotesOf(b, s) }) # 1

StalledIsFixpoint ==
    \A f \in Frames :
        (f.pc = "after" /\ ~is_full(heap[f.b])) => RuleFixpoint(heap[f.b])

\* The propagation of the outermost call has filled squares and then
\* stalled.
StalledAfterProgress ==
    /\ Depth = 1
    /\ Top.pc = "after"
    /\ ~is_full(TopB)
    /\ TopB.total_appearances > N * N - Empties(given)

(***************************************************************************)
(* C17. On every board, at every point of board_solve, a value is noted on *)
(* a square only if the square is empty and the used-sets of its row, its  *)
(* column and its box lack the value; and right after board_make_notes on  *)
(* a board without notes (the call by main) a value is noted on a square   *)
(* exactly when that holds.                                                *)
(***************************************************************************)
MayNote(b, s, v) ==
    /\ At(b.data, s) = 0
    /\ ~heatmap_check(b.rows[s[1]], v)
    /\ ~heatmap_check(b.cols[s[2]], v)
    /\ ~heatmap_check(b.boxs[box_finder(s[1], s[2])], v)
NotesSound(b) ==
    \A s \in Squares : \A v \in Vals :
        heatmap_check(At(b.notes, s), v) => MayNote(b, s, v)
NotesExact(b) ==
    \A s \in Squares :
        /\ \A v \in Vals : heatmap_check(At(b.notes, s), v) <=> MayNote(b, s, v)
        /\ At(b.notes, s).count = Cardinality({ v \in Vals : MayNote(b, s, v) })

NotesNeverStale ==
    /\ [](\A id \in DOMAIN heap : NotesSound(heap[id]))
    /\ [][ (pcMain = "input" /\ pcMain' = "solving") =>
              /\ \A s \in Squares : At(heap[1].notes, s) = heatmap_create
              /\ NotesExact(heap'[1])
         ]_vars

\* A recursive call has just filled a square of its board by propagation,
\* and the board still has notes.
NotedAfterDeepInsert ==
    /\ Depth >= 2
    /\ lastCall.by = "prop" /\ lastCall.ret = 0 /\ lastCall.b = Top.b
    /\ \E s \in Squares : At(TopB.notes, s).count >= 2
    /\ \E s \in Squares : \E v \in Vals :
          At(TopB.data, s) = 0 /\ MayNote(TopB, s, v)

(***************************************************************************)
(* C18. Every scratch board a board_solve call created is released when    *)
(* the call returns: once the outermost call has returned, the client's    *)
(* board is the only board allocated, and the boards allocated during the  *)
(* solve are the boards of the active calls and their scratch boards.      *)
(***************************************************************************)
ScratchReleased ==
    /\ pcMain = "done" => DOMAIN heap = {1}
    /\ pcMain = "solving" =>
          DOMAIN heap \subseteq
              ({ stack[k].b : k \in 1 .. Depth }
                  \cup { stack[k].new_b : k \in 1 .. Depth })

(***************************************************************************)
(* C19. On every board, in every state main's board_insert calls and       *)
(* board_solve can reach, no row, column or box holds a value in two       *)
(* squares. A filled square of the client's board, and of the board of     *)
(* every active board_solve call, keeps its value at every step, so it     *)
(* holds it when the call returns, with 0 or with 1.                       *)
(***************************************************************************)
NoValueTwice(g) ==
    \A U \in Units : \A v \in Vals :
        Cardinality({ s \in U : At(g, s) = v }) <= 1

GridStaysValid ==
    /\ [](\A id \in DOMAIN heap : NoValueTwice(heap[id].data))
    /\ [](pcMain = "done" => Extends(heap[1].data, given))
    /\ [](\A f \in Frames :
            f.pc = "got" => Extends(heap[f.new_b].data, GuessedGrid(f)))
    /\ [][ /\ 1 \in DOMAIN heap' => Extends(heap'[1].data, heap[1].data)
           /\ \A k \in 1 .. Depth :
                 (Depth' >= k /\ stack'[k].b = stack[k].b) =>
                     Extends(heap'[stack[k].b].data, heap[stack[k].b].data)
         ]_vars

\* The outermost call has returned 1 after guesses, on a board with clues.
UnsolvableAfterGuessing ==
    /\ pcMain = "done" /\ result = 1
    /\ nalloc > 1
    /\ Empties(given) < N * N
    /\ Empties(heap[1].data) > 0

====
